---------------------------- MODULE Spec2Model ----------------------------
(***************************************************************************)
(* Heart-rate effort and workout-quality scoring of the 100% workout app   *)
(* (services/HeartRateService: calculateHeartRateZones, getEffortLevel,    *)
(* calculateWorkoutQuality).                                               *)
(*                                                                         *)
(* Numbers are JavaScript doubles in the source.  Every value the scoring  *)
(* code rounds is a rational with a small denominator, so the model keeps  *)
(* exact integers: a quotient a/b is carried as the pair (a, b) and        *)
(* Math.round(a/b) is RoundDiv(a, b).  The one place where the double      *)
(* product differs from the exact one inside the modelled range is         *)
(* maxHeartRate * 0.7 (see TieBelowHalf).  The weighted sum of a score is   *)
(* added up from inexact products (x * 0.35, ...), so when its exact value  *)
(* is k + 1/2 the double is k + 1/2 or the double just below it, and        *)
(* Math.round gives k + 1 or k: both outcomes are modelled (tieUp).         *)
(* Division by a zero band width yields the double +Infinity, carried as    *)
(* the value Infinity.                                                      *)
(*                                                                         *)
(* The screens (StartWorkoutScreen, ActiveWorkoutScreen, HomeScreen) and    *)
(* services/WorkoutStorage are modelled as handlers over the navigator's    *)
(* route, the screens' useState values and the AsyncStorage item; an async  *)
(* function is one action per stretch between two awaits.                   *)
(***************************************************************************)
EXTENDS Integers, Sequences, FiniteSets, TLC

VARIABLES
    maxHeartRate,    \* argument maxHeartRate of all three functions
    heartRate,       \* argument heartRate of getEffortLevel
    effort,          \* value returned by getEffortLevel
    heartRateData,   \* argument heartRateData: the heartRate of each sample, in order
    duration,        \* argument duration (seconds)
    workoutType,     \* argument workoutType
    effortLevel,     \* value returned by calculateWorkoutQuality
    pc,              \* "input" before the call, "returned" after it
    start,           \* StartWorkoutScreen: the text fields age and maxHeartRate, workoutType
    route,           \* the screen the navigator shows, with the age route parameter
    alert,           \* title of the last Alert.alert, "" when none was shown
    screen,          \* ActiveWorkoutScreen: its useState values and monitorRef.current
    storage,         \* AsyncStorage: the workout list stored under WORKOUTS_KEY
    calls,           \* the WorkoutStorage operations in flight, one per caller
    home,            \* HomeScreen: recentWorkouts, totalWorkouts
    trace            \* the calculateWorkoutQuality calls made so far, with their results

funcVars == <<maxHeartRate, heartRate, effort, heartRateData, duration, workoutType, effortLevel, pc>>

appVars == <<start, route, alert, screen, storage, calls, home, trace>>

vars == <<maxHeartRate, heartRate, effort, heartRateData, duration, workoutType, effortLevel, pc,
          start, route, alert, screen, storage, calls, home, trace>>

-----------------------------------------------------------------------------
(* Bounds of the exploration *)

MaxHR == 225          \* getEffortLevel is explored for maxHeartRate in 1..MaxHR
MaxBpm == 255         \* and for heartRate in 0..MaxBpm
MaxSamples == 2       \* calculateWorkoutQuality: sample sequences up to this length
MaxBurst == 8         \* ... and up to this length when every reading is in a high band

(* Program constants *)

Null == -1            \* heartRate: number | null; no reading is negative
Infinity == 1000000   \* the double +Infinity (x / 0 with x > 0); above every finite value here
MinMaxHeartRate == 100   \* StartWorkoutScreen accepts 100 <= maxHeartRate
MaxMaxHeartRate == 220   \* ... <= 220
MinManualReading == 41   \* ActiveWorkoutScreen accepts hr > 40
MaxManualReading == 249  \* ... and hr < 250

NoResult == [returned |-> FALSE]

-----------------------------------------------------------------------------
(* variant: Math.ceil in place of Math.round *)
RoundDiv_ceil(a, b) == (a + b - 1) \div b

(* Math.round(a / b) for b > 0: the nearest integer, ties towards +Infinity *)
RoundDiv(a, b) == (2 * a + b) \div (2 * b)

(* The maxHeartRate values for which the double product maxHeartRate * 0.7   *)
(* is the double just below k + 0.5 although the exact product is k + 0.5,   *)
(* so that Math.round gives k.  (0.5, 0.6 and 0.85 have no such case for     *)
(* maxHeartRate < 325.)                                                      *)
TieBelowHalf == {45, 85, 165, 175}

(* Math.round(maxHeartRate * pct / 100) as the doubles compute it *)
RoundPct(M, pct) ==
    IF pct = 70 /\ M \in TieBelowHalf THEN (M * 70) \div 100
    ELSE RoundDiv(M * pct, 100)

(* variant: the lower edge of fatBurn truncated instead of rounded *)
calculateHeartRateZones_truncated(M) ==
    [ recovery  |-> [min |-> 0,                max |-> RoundPct(M, 50)],
      fatBurn   |-> [min |-> (M * 50) \div 100, max |-> RoundPct(M, 60)],
      aerobic   |-> [min |-> RoundPct(M, 60),  max |-> RoundPct(M, 70)],
      anaerobic |-> [min |-> RoundPct(M, 70),  max |-> RoundPct(M, 85)],
      max       |-> [min |-> RoundPct(M, 85),  max |-> M] ]

calculateHeartRateZones(M) ==
    [ recovery  |-> [min |-> 0,                max |-> RoundPct(M, 50)],
      fatBurn   |-> [min |-> RoundPct(M, 50),  max |-> RoundPct(M, 60)],
      aerobic   |-> [min |-> RoundPct(M, 60),  max |-> RoundPct(M, 70)],
      anaerobic |-> [min |-> RoundPct(M, 70),  max |-> RoundPct(M, 85)],
      max       |-> [min |-> RoundPct(M, 85),  max |-> M] ]

(* variant: the band's base offset left out *)
Interpolate_noBase(base, hr, lo, hi) ==
    IF hi = lo THEN Infinity
    ELSE RoundDiv((hr - lo) * 20, hi - lo)

(* Math.round(base + ((hr - lo) / (hi - lo)) * 20).  With hi = lo the        *)
(* quotient is x / 0; for maxHeartRate >= 1 a zero-width band is entered     *)
(* only with hr > lo (the Max band with round(0.85 M) = M), giving +Infinity *)
Interpolate(base, hr, lo, hi) ==
    IF hi = lo THEN Infinity
    ELSE base + RoundDiv((hr - lo) * 20, hi - lo)

(* variant: band upper edges exclusive *)
getEffortLevel_exclusive(hr, M) ==
    LET zones == calculateHeartRateZones(M) IN
    IF hr < zones.recovery.max THEN
        [zone |-> "Recovery",
         intensity |-> Interpolate(0, hr, 0, zones.recovery.max),
         description |-> "Very Light"]
    ELSE IF hr < zones.fatBurn.max THEN
        [zone |-> "Fat Burn",
         intensity |-> Interpolate(20, hr, zones.fatBurn.min, zones.fatBurn.max),
         description |-> "Light"]
    ELSE IF hr < zones.aerobic.max THEN
        [zone |-> "Aerobic",
         intensity |-> Interpolate(40, hr, zones.aerobic.min, zones.aerobic.max),
         description |-> "Moderate"]
    ELSE IF hr < zones.anaerobic.max THEN
        [zone |-> "Anaerobic",
         intensity |-> Interpolate(60, hr, zones.anaerobic.min, zones.anaerobic.max),
         description |-> "Hard"]
    ELSE
        [zone |-> "Max",
         intensity |-> Interpolate(80, hr, zones.max.min, zones.max.max),
         description |-> "Maximum"]

getEffortLevel(hr, M) ==
    LET zones == calculateHeartRateZones(M) IN
    IF hr <= zones.recovery.max THEN
        [zone |-> "Recovery",
         intensity |-> Interpolate(0, hr, 0, zones.recovery.max),
         description |-> "Very Light"]
    ELSE IF hr <= zones.fatBurn.max THEN
        [zone |-> "Fat Burn",
         intensity |-> Interpolate(20, hr, zones.fatBurn.min, zones.fatBurn.max),
         description |-> "Light"]
    ELSE IF hr <= zones.aerobic.max THEN
        [zone |-> "Aerobic",
         intensity |-> Interpolate(40, hr, zones.aerobic.min, zones.aerobic.max),
         description |-> "Moderate"]
    ELSE IF hr <= zones.anaerobic.max THEN
        [zone |-> "Anaerobic",
         intensity |-> Interpolate(60, hr, zones.anaerobic.min, zones.anaerobic.max),
         description |-> "Hard"]
    ELSE
        [zone |-> "Max",
         intensity |-> Interpolate(80, hr, zones.max.min, zones.max.max),
         description |-> "Maximum"]

-----------------------------------------------------------------------------
(* calculateWorkoutQuality *)

(* !data.heartRate: true of null and of 0 *)
Falsy(hr) == hr = Null \/ hr = 0

RECURSIVE SumSeq(_)
SumSeq(s) == IF s = <<>> THEN 0 ELSE Head(s) + SumSeq(Tail(s))

RECURSIVE MaxSeq(_)
MaxSeq(s) ==
    IF Len(s) = 1 THEN Head(s)
    ELSE LET m == MaxSeq(Tail(s)) IN IF Head(s) >= m THEN Head(s) ELSE m

Min(a, b) == IF a <= b THEN a ELSE b
Max(a, b) == IF a >= b THEN a ELSE b

(* heartRateData.map(...): 0 for a falsy heartRate, else getEffortLevel(...).intensity *)
Intensities(data, M) ==
    [i \in DOMAIN data |->
        IF Falsy(data[i]) THEN 0 ELSE getEffortLevel(data[i], M).intensity]

HasInfinity(s) == \E i \in DOMAIN s : s[i] = Infinity

(* intensities.reduce((sum, i) => sum + i, 0): a sum with an infinite term is infinite *)
SumIntensity(s) == IF HasInfinity(s) THEN Infinity ELSE SumSeq(s)

(* variant: band upper edges exclusive in the counting loop *)
CountZone_exclusive(hr, zones) ==
    IF hr < zones.recovery.max THEN "recovery"
    ELSE IF hr < zones.fatBurn.max THEN "fatBurn"
    ELSE IF hr < zones.aerobic.max THEN "aerobic"
    ELSE IF hr < zones.anaerobic.max THEN "anaerobic"
    ELSE "max"

(* the if/else-if chain of the zone counting loop *)
CountZone(hr, zones) ==
    IF hr <= zones.recovery.max THEN "recovery"
    ELSE IF hr <= zones.fatBurn.max THEN "fatBurn"
    ELSE IF hr <= zones.aerobic.max THEN "aerobic"
    ELSE IF hr <= zones.anaerobic.max THEN "anaerobic"
    ELSE "max"

ZoneNames == {"recovery", "fatBurn", "aerobic", "anaerobic", "max"}

(* variant: the percentages taken over the non-null samples only *)
TimeInZones_validTotal(data, M) ==
    LET zones == calculateHeartRateZones(M)
        count(z) == Cardinality({i \in DOMAIN data :
                        ~Falsy(data[i]) /\ CountZone(data[i], zones) = z})
        total == Max(Cardinality({i \in DOMAIN data : data[i] # Null}), 1)
    IN  [z \in ZoneNames |-> RoundDiv(count(z) * 100, total)]

(* timeInZones after the counting loop and the conversion to percentages *)
TimeInZones(data, M) ==
    LET zones == calculateHeartRateZones(M)
        count(z) == Cardinality({i \in DOMAIN data :
                        ~Falsy(data[i]) /\ CountZone(data[i], zones) = z})
        total == Len(data)
    IN  [z \in ZoneNames |-> RoundDiv(count(z) * 100, total)]

(* variant: null readings kept and read as 0 *)
ValidHRs_nullsAsZero(data) == [i \in DOMAIN data |-> IF data[i] = Null THEN 0 ELSE data[i]]

(* heartRateData.filter(d => d.heartRate !== null).map(d => d.heartRate!) *)
ValidHRs(data) == SelectSeq(data, LAMBDA hr : hr # Null)

(* Math.round(Math.sqrt(variance)) with variance = a / n^2: the k with      *)
(* k - 1/2 <= sqrt(a) / n < k + 1/2                                         *)
RoundSqrt(a, n) ==
    CHOOSE k \in 0..a :
        /\ 4 * a < (2 * k + 1) * (2 * k + 1) * n * n
        /\ (k = 0 \/ (2 * k - 1) * (2 * k - 1) * n * n <= 4 * a)

(* population standard deviation of the valid readings, rounded:            *)
(* variance = (n * sum(hr^2) - sum(hr)^2) / n^2                             *)
HrVariability(valid) ==
    LET n == Len(valid)
        squares == [i \in DOMAIN valid |-> valid[i] * valid[i]]
        s == SumSeq(valid)
    IN  RoundSqrt(n * SumSeq(squares) - s * s, n)

PeakSpikes(data, M) ==
    LET anaerobicThreshold == RoundPct(M, 85)
    IN  Cardinality({i \in DOMAIN data : ~Falsy(data[i]) /\ data[i] > anaerobicThreshold})

(* the forEach that tracks currentSustained and maxSustainedAerobic *)
RECURSIVE SustainedLoop(_, _, _, _, _)
SustainedLoop(data, aerobicMin, aerobicMax, currentSustained, maxSustainedAerobic) ==
    IF data = <<>> THEN maxSustainedAerobic
    ELSE IF ~Falsy(Head(data)) /\ Head(data) >= aerobicMin /\ Head(data) <= aerobicMax
         THEN SustainedLoop(Tail(data), aerobicMin, aerobicMax, currentSustained + 1,
                            Max(maxSustainedAerobic, currentSustained + 1))
         ELSE SustainedLoop(Tail(data), aerobicMin, aerobicMax, 0, maxSustainedAerobic)

(* variant: the lower edge of the aerobic range exclusive *)
SustainedAerobic_exclusive(data, M) ==
    RoundDiv(SustainedLoop(data, RoundPct(M, 60) + 1, RoundPct(M, 70), 0, 0) * 100, Len(data))

SustainedAerobic(data, M) ==
    RoundDiv(SustainedLoop(data, RoundPct(M, 60), RoundPct(M, 70), 0, 0) * 100, Len(data))

(* the if/else-if chain of the zone transition loop *)
TransitionZone(hr, zones) ==
    IF hr <= zones.recovery.max THEN "recovery"
    ELSE IF hr <= zones.fatBurn.max THEN "fatBurn"
    ELSE IF hr <= zones.aerobic.max THEN "aerobic"
    ELSE IF hr <= zones.anaerobic.max THEN "anaerobic"
    ELSE "max"

(* the forEach that tracks previousZone ('' at first) and zoneTransitions *)
RECURSIVE TransitionLoop(_, _, _, _)
TransitionLoop(data, zones, previousZone, zoneTransitions) ==
    IF data = <<>> THEN zoneTransitions
    ELSE IF Falsy(Head(data)) THEN TransitionLoop(Tail(data), zones, previousZone, zoneTransitions)
    ELSE LET currentZone == TransitionZone(Head(data), zones) IN
         TransitionLoop(Tail(data), zones, currentZone,
             IF previousZone # "" /\ previousZone # currentZone
             THEN zoneTransitions + 1 ELSE zoneTransitions)

(* variant: previousZone starting at a zone name, not at '' *)
ZoneTransitions_countFirst(data, M) ==
    TransitionLoop(data, calculateHeartRateZones(M), "none", 0)

ZoneTransitions(data, M) == TransitionLoop(data, calculateHeartRateZones(M), "", 0)

WorkoutSpecific(data, M) ==
    LET valid == ValidHRs(data)
        rest == [peakSpikes |-> PeakSpikes(data, M),
                 sustainedAerobic |-> SustainedAerobic(data, M),
                 zoneTransitions |-> ZoneTransitions(data, M)]
    IN  IF Len(valid) > 1
        THEN [hrVariability |-> HrVariability(valid)] @@ rest
        ELSE rest

(* Math.round of a weighted sum whose exact value is a / b: the nearest      *)
(* integer, and k + 1 (tieUp) or k when the exact value is k + 1/2           *)
RoundSum(a, b, tieUp) ==
    IF (2 * a + b) % (2 * b) = 0 /\ ~tieUp THEN RoundDiv(a, b) - 1
    ELSE RoundDiv(a, b)

(* The weighted sums.  Every term is a multiple of 1 / (36 n), n the sample  *)
(* count, and every weight a multiple of 1/100, so a score is                *)
(* Math.round(numerator / (3600 n)); the operators below give each term      *)
(* multiplied by 36 n.                                                       *)
Unit(n) == 36 * n

(* averageIntensity = sum / n *)
AverageTerm(sumIntensity, n) == sumIntensity * 36

(* an integer quantity (maxIntensity, a zone percentage, sustainedAerobic) *)
WholeTerm(x, n) == x * Unit(n)

(* variant: durationScore without the Math.min clamp *)
DurationTerm_unclamped(d, n) == d * n

(* durationScore = Math.min(duration / 3600 * 100, 100) *)
DurationTerm(d, n) == Min(d, 3600) * n

(* variabilityScore = hrVariability ? Math.min((hrVariability / 30) * 100, 100) : 50 *)
VariabilityTerm(ws, n) ==
    IF "hrVariability" \in DOMAIN ws /\ ws.hrVariability # 0
    THEN Min(ws.hrVariability * 10, 300) * 12 * n
    ELSE 50 * Unit(n)

(* variant: the rate without the Math.min clamp at 100 *)
RateTerm_unclamped(count, per, n) ==
    LET m == Max(n, per)
    IN  (count * per * 100 * Unit(n)) \div m

(* Math.min((count / Math.max(n / per, 1)) * 100, 100), used with per = 10  *)
(* for peakSpikes and per = 5 for zoneTransitions: with m = max(n, per) it   *)
(* is min(100 count per, 100 m) / m, and m divides the product below (m is   *)
(* n, or it is per and divides the minimum)                                  *)
RateTerm(count, per, n) ==
    LET m == Max(n, per)
    IN  (Min(count * per * 100, 100 * m) * Unit(n)) \div m

WeightliftingScore(sumIntensity, maxIntensity, ws, d, n, tieUp) ==
    RoundSum(  WholeTerm(maxIntensity, n) * 30
             + RateTerm(ws.peakSpikes, 10, n) * 25
             + VariabilityTerm(ws, n) * 25
             + DurationTerm(d, n) * 10
             + AverageTerm(sumIntensity, n) * 10,
             100 * Unit(n), tieUp)

CardioScore(sumIntensity, timeInZones, ws, d, n, tieUp) ==
    RoundSum(  WholeTerm(ws.sustainedAerobic, n) * 35
             + AverageTerm(sumIntensity, n) * 30
             + DurationTerm(d, n) * 20
             + WholeTerm(timeInZones["aerobic"], n) * 15,
             100 * Unit(n), tieUp)

HIITScore(sumIntensity, maxIntensity, timeInZones, ws, n, tieUp) ==
    RoundSum(  WholeTerm(timeInZones["anaerobic"] + timeInZones["max"], n) * 30
             + RateTerm(ws.zoneTransitions, 5, n) * 25
             + WholeTerm(maxIntensity, n) * 25
             + AverageTerm(sumIntensity, n) * 20,
             100 * Unit(n), tieUp)

(* variant: averageIntensity weighted 0.30 instead of 0.35 *)
DefaultScore_weights(sumIntensity, maxIntensity, timeInZones, d, n, tieUp) ==
    RoundSum(  AverageTerm(sumIntensity, n) * 30
             + WholeTerm(maxIntensity, n) * 30
             + WholeTerm(timeInZones["anaerobic"] + timeInZones["max"], n) * 20
             + DurationTerm(d, n) * 15,
             100 * Unit(n), tieUp)

DefaultScore(sumIntensity, maxIntensity, timeInZones, d, n, tieUp) ==
    RoundSum(  AverageTerm(sumIntensity, n) * 35
             + WholeTerm(maxIntensity, n) * 30
             + WholeTerm(timeInZones["anaerobic"] + timeInZones["max"], n) * 20
             + DurationTerm(d, n) * 15,
             100 * Unit(n), tieUp)

(* variant: the 'Cycling' case label missing *)
Formula_noCycling(type) ==
    CASE type = "Weightlifting" -> "Weightlifting"
      [] type \in {"Cardio", "Running"} -> "Cardio"
      [] type \in {"HIIT", "CrossFit"} -> "HIIT"
      [] OTHER -> "default"

(* the case labels of switch (workoutType) *)
Formula(type) ==
    CASE type = "Weightlifting" -> "Weightlifting"
      [] type \in {"Cardio", "Running", "Cycling"} -> "Cardio"
      [] type \in {"HIIT", "CrossFit"} -> "HIIT"
      [] OTHER -> "default"

(* every formula has an averageIntensity term with a positive weight, so an  *)
(* infinite intensity makes the sum, and Math.round of it, +Infinity          *)
Score(sumIntensity, maxIntensity, timeInZones, ws, d, n, type, tieUp) ==
    IF sumIntensity = Infinity THEN Infinity
    ELSE CASE Formula(type) = "Weightlifting" ->
                WeightliftingScore(sumIntensity, maxIntensity, ws, d, n, tieUp)
           [] Formula(type) = "Cardio" ->
                CardioScore(sumIntensity, timeInZones, ws, d, n, tieUp)
           [] Formula(type) = "HIIT" ->
                HIITScore(sumIntensity, maxIntensity, timeInZones, ws, n, tieUp)
           [] OTHER ->
                DefaultScore(sumIntensity, maxIntensity, timeInZones, d, n, tieUp)

(* variant: the bands' lower edges exclusive *)
QualityOf_exclusive(score) ==
    IF score > 80 THEN "Excellent"
    ELSE IF score > 60 THEN "Good"
    ELSE IF score > 40 THEN "Fair"
    ELSE "Poor"

QualityOf(score) ==
    IF score >= 80 THEN "Excellent"
    ELSE IF score >= 60 THEN "Good"
    ELSE IF score >= 40 THEN "Fair"
    ELSE "Poor"

(* variant: the early return carrying the zero-initialised zone map *)
EmptyResult_zeroZones ==
    [averageIntensity |-> 0,
     maxIntensity |-> 0,
     timeInZones |-> [z \in ZoneNames |-> 0],
     quality |-> "Poor",
     score |-> 0]

(* the early return for heartRateData.length === 0; timeInZones is {} *)
EmptyResult ==
    [averageIntensity |-> 0,
     maxIntensity |-> 0,
     timeInZones |-> [z \in {} |-> 0],
     quality |-> "Poor",
     score |-> 0]

(* variant: timeInZones holding only the zones some sample fell in *)
calculateWorkoutQuality_visitedZones(data, M, d, type, tieUp) ==
    IF Len(data) = 0 THEN EmptyResult
    ELSE
    LET intensities == Intensities(data, M)
        n == Len(data)
        sumIntensity == SumIntensity(intensities)
        maxIntensity == MaxSeq(intensities)
        timeInZones == TimeInZones(data, M)
        visited == {z \in ZoneNames : timeInZones[z] > 0}
        workoutSpecific == WorkoutSpecific(data, M)
        score == Score(sumIntensity, maxIntensity, timeInZones, workoutSpecific, d, n, type, tieUp)
    IN  [averageIntensity |->
            IF sumIntensity = Infinity THEN Infinity ELSE RoundDiv(sumIntensity, n),
         maxIntensity |-> maxIntensity,
         timeInZones |-> [z \in visited |-> timeInZones[z]],
         quality |-> QualityOf(score),
         score |-> score,
         workoutSpecific |-> workoutSpecific]

(* tieUp: which way the double sum of the score falls at an exact tie *)
calculateWorkoutQuality(data, M, d, type, tieUp) ==
    IF Len(data) = 0 THEN EmptyResult
    ELSE
    LET intensities == Intensities(data, M)
        n == Len(data)
        sumIntensity == SumIntensity(intensities)
        maxIntensity == MaxSeq(intensities)
        timeInZones == TimeInZones(data, M)
        workoutSpecific == WorkoutSpecific(data, M)
        score == Score(sumIntensity, maxIntensity, timeInZones, workoutSpecific, d, n, type, tieUp)
    IN  [averageIntensity |->
            IF sumIntensity = Infinity THEN Infinity ELSE RoundDiv(sumIntensity, n),
         maxIntensity |-> maxIntensity,
         timeInZones |-> timeInZones,
         quality |-> QualityOf(score),
         score |-> score,
         workoutSpecific |-> workoutSpecific]

-----------------------------------------------------------------------------
(* The app around the scoring functions, as it is when nothing has been     *)
(* typed, started or stored                                                  *)

(* the most WorkoutStorage operations in flight at once *)
MaxCalls == 2

Callers == 1..MaxCalls

(* monitorRef.current === null *)
NoMonitor == [none |-> TRUE]

(* a caller with no WorkoutStorage operation in flight *)
Idle == [op |-> "none", pc |-> "none"]

(* useState('') for age and maxHeartRate, useState('Other') for workoutType, *)
(* and the texts saved under AGE_KEY and MAX_HEART_RATE_KEY, <<>> when there *)
(* is none; a text is the sequence of its characters                         *)
StartState ==
    [age |-> <<>>, maxHeartRate |-> <<>>, workoutType |-> "Other",
     savedAge |-> <<>>, savedMaxHR |-> <<>>]

(* the useState / useRef initial values of ActiveWorkoutScreen; a timestamp  *)
(* is a positive integer, and workoutId 0 stands for ''                      *)
ScreenState ==
    [heartRateHistory |-> <<>>,
     isMonitoring |-> FALSE,
     isManualMode |-> FALSE,
     showManualEntry |-> FALSE,
     manualHRInput |-> <<>>,
     startTime |-> 0,
     workoutId |-> 0,
     monitorRef |-> NoMonitor,
     intervalRef |-> FALSE]

(* useState([]) for recentWorkouts, useState(0) for totalWorkouts *)
HomeState == [recentWorkouts |-> <<>>, totalWorkouts |-> 0]

AppInit ==
    /\ start = StartState
    /\ route = [name |-> "Home", age |-> Null]
    /\ alert = ""
    /\ screen = ScreenState
    /\ storage = <<>>
    /\ calls = [c \in Callers |-> Idle]
    /\ home = HomeState
    /\ trace = <<>>

-----------------------------------------------------------------------------
(* calculateWorkoutQuality as a function of its four arguments: the sample   *)
(* sequence is built one reading at a time, then the function is called      *)

WorkoutTypes ==
    {"Weightlifting", "Cardio", "HIIT", "CrossFit", "Running", "Cycling", "Yoga", "Other"}

(* a value outside the WorkoutType union, as an untyped caller can pass *)
UnknownType == "Pilates"

QualityMaxHeartRates == {3, 200}

Durations == {0, 60, 7200}

(* the readings tried against maxHeartRate M: null, 0, the upper edge of     *)
(* each band, and the largest reading the manual entry accepts               *)
Readings(M) ==
    LET zones == calculateHeartRateZones(M)
    IN  {Null, 0, zones.recovery.max, zones.fatBurn.max, zones.aerobic.max,
         zones.anaerobic.max, M, MaxManualReading}

(* the readings of a long high-intensity session *)
BurstReadings(M) == {calculateHeartRateZones(M).anaerobic.max, M}

InitQuality ==
    /\ maxHeartRate \in QualityMaxHeartRates
    /\ heartRateData = <<>>
    /\ duration = 0
    /\ workoutType = "Other"
    /\ effortLevel = NoResult
    /\ heartRate = Null
    /\ effort = NoResult
    /\ pc = "input"
    /\ AppInit

AddSample(hr) ==
    /\ pc = "input"
    /\ \/ Len(heartRateData) < MaxSamples
       \/ /\ Len(heartRateData) < MaxBurst
          /\ hr \in BurstReadings(maxHeartRate)
          /\ \A i \in DOMAIN heartRateData : heartRateData[i] \in BurstReadings(maxHeartRate)
    /\ heartRateData' = Append(heartRateData, hr)
    /\ UNCHANGED <<maxHeartRate, heartRate, effort, duration, workoutType, effortLevel, pc>>
    /\ UNCHANGED appVars

CallCalculateWorkoutQuality(d, type) ==
    /\ pc = "input"
    /\ duration' = d
    /\ workoutType' = type
    /\ \E tieUp \in BOOLEAN :
          effortLevel' = calculateWorkoutQuality(heartRateData, maxHeartRate, d, type, tieUp)
    /\ pc' = "returned"
    /\ UNCHANGED <<maxHeartRate, heartRate, effort, heartRateData>>
    /\ UNCHANGED appVars

NextQuality ==
    \/ \E hr \in Readings(maxHeartRate) : AddSample(hr)
    \/ \E d \in Durations, type \in WorkoutTypes \cup {UnknownType} :
          CallCalculateWorkoutQuality(d, type)

SpecQuality == InitQuality /\ [][NextQuality]_vars

-----------------------------------------------------------------------------
(* getEffortLevel as a function of its two arguments *)

InitEffort ==
    /\ maxHeartRate \in 1..MaxHR
    /\ heartRate \in 0..MaxBpm
    /\ effort = NoResult
    /\ heartRateData = <<>>
    /\ duration = 0
    /\ workoutType = "Other"
    /\ effortLevel = NoResult
    /\ pc = "input"
    /\ AppInit

CallGetEffortLevel ==
    /\ pc = "input"
    /\ effort' = getEffortLevel(heartRate, maxHeartRate)
    /\ pc' = "returned"
    /\ UNCHANGED <<maxHeartRate, heartRate, heartRateData, duration, workoutType, effortLevel>>
    /\ UNCHANGED appVars

NextEffort == CallGetEffortLevel

SpecEffort == InitEffort /\ [][NextEffort]_vars

-----------------------------------------------------------------------------
(* calculateWorkoutQuality on whole sessions at maxHeartRate 200: longer     *)
(* sample sequences of a few shapes, built one reading at a time             *)

MaxSeries == 10
MaxRamp == 8
MaxSteady == 5

SeriesMaxHeartRate == 200

(* one workoutType per branch of the switch *)
SeriesTypes == {"Weightlifting", "Cardio", "HIIT", "Other"}

SeriesDurations == {0, 3600}

(* an interval session: readings alternating between 60 and 190 *)
IntervalReadings == {60, 190}

(* a steady session at 150 in which the sensor drops readings *)
DropoutReadings == {150, Null}

(* a ramp: the upper edge of each band, never falling *)
RampReadings(M) ==
    LET zones == calculateHeartRateZones(M)
    IN  {zones.recovery.max, zones.fatBurn.max, zones.aerobic.max,
         zones.anaerobic.max, zones.max.max}

(* a session around the aerobic band with dropped readings: both edges of    *)
(* the band, a reading above it, and null                                    *)
SteadyReadings(M) ==
    LET zones == calculateHeartRateZones(M)
    IN  {Null, zones.aerobic.min, zones.aerobic.max, 150}

Range(s) == {s[i] : i \in DOMAIN s}

IsSeries(s, M) ==
    \/ /\ Len(s) <= MaxSeries
       /\ Range(s) \subseteq IntervalReadings
       /\ \A i \in 1..(Len(s) - 1) : s[i] # s[i + 1]
    \/ /\ Len(s) <= MaxSeries
       /\ Range(s) \subseteq DropoutReadings
    \/ /\ Len(s) <= MaxRamp
       /\ Range(s) \subseteq RampReadings(M)
       /\ \A i \in 1..(Len(s) - 1) : s[i] <= s[i + 1]
    \/ /\ Len(s) <= MaxSteady
       /\ Range(s) \subseteq SteadyReadings(M)

InitSeries ==
    /\ maxHeartRate = SeriesMaxHeartRate
    /\ heartRateData = <<>>
    /\ duration = 0
    /\ workoutType = "Other"
    /\ effortLevel = NoResult
    /\ heartRate = Null
    /\ effort = NoResult
    /\ pc = "input"
    /\ AppInit

AddSeriesSample(hr) ==
    /\ pc = "input"
    /\ IsSeries(Append(heartRateData, hr), maxHeartRate)
    /\ heartRateData' = Append(heartRateData, hr)
    /\ UNCHANGED <<maxHeartRate, heartRate, effort, duration, workoutType, effortLevel, pc>>
    /\ UNCHANGED appVars

NextSeries ==
    \/ \E hr \in IntervalReadings \cup DropoutReadings \cup RampReadings(maxHeartRate)
                    \cup SteadyReadings(maxHeartRate) :
          AddSeriesSample(hr)
    \/ \E d \in SeriesDurations, type \in SeriesTypes :
          CallCalculateWorkoutQuality(d, type)

SpecSeries == InitSeries /\ [][NextSeries]_vars

-----------------------------------------------------------------------------
(* calculateWorkoutQuality called with arguments outside their meaningful    *)
(* range: maxHeartRate 0 or negative, duration negative.  For maxHeartRate   *)
(* in -1..0 every band edge is 0 or -1 and the Max band has zero width, so   *)
(* a positive reading gets intensity +Infinity.                              *)

GuardMaxHeartRates == {-1, 0, 200}

GuardDurations == {-36000, -60, 0, 60}

InitGuard ==
    /\ maxHeartRate \in GuardMaxHeartRates
    /\ heartRateData = <<>>
    /\ duration = 0
    /\ workoutType = "Other"
    /\ effortLevel = NoResult
    /\ heartRate = Null
    /\ effort = NoResult
    /\ pc = "input"
    /\ AppInit

NextGuard ==
    \/ \E hr \in Readings(maxHeartRate) : AddSample(hr)
    \/ \E d \in GuardDurations, type \in SeriesTypes :
          CallCalculateWorkoutQuality(d, type)

SpecGuard == InitGuard /\ [][NextGuard]_vars

-----------------------------------------------------------------------------
(* calculateWorkoutQuality called several times on one sample sequence,      *)
(* with other calls in between; trace keeps every call's arguments, the      *)
(* sample sequence as the call left it, and the result.  The double sum of   *)
(* a score is a fixed function of the arguments, so a call whose arguments   *)
(* were seen before rounds a tie the way that earlier call did.              *)

MaxTrace == 3

PureSamples == {<<>>, <<Null>>, <<100>>, <<150, 150>>, <<Null, 120, 190>>}

InitPure ==
    /\ maxHeartRate \in QualityMaxHeartRates
    /\ heartRateData \in PureSamples
    /\ duration = 0
    /\ workoutType = "Other"
    /\ effortLevel = NoResult
    /\ heartRate = Null
    /\ effort = NoResult
    /\ pc = "input"
    /\ AppInit

(* the arguments of the call that trace entry e records *)
SameArguments(e, data, M, d, type) ==
    /\ e.heartRateData = data
    /\ e.maxHeartRate = M
    /\ e.duration = d
    /\ e.workoutType = type

(* the ways the score's double sum can round for these arguments: the way    *)
(* an earlier call with the same arguments rounded, or else either way when  *)
(* the exact sum is a tie                                                    *)
TieDirections(data, M, d, type) ==
    IF \E i \in DOMAIN trace : SameArguments(trace[i], data, M, d, type)
    THEN {trace[i].tieUp : i \in {j \in DOMAIN trace : SameArguments(trace[j], data, M, d, type)}}
    ELSE IF calculateWorkoutQuality(data, M, d, type, TRUE)
              = calculateWorkoutQuality(data, M, d, type, FALSE)
         THEN {TRUE}
         ELSE BOOLEAN

(* variant: the duration read from where the previous call left it *)
RecordedCall_sharedDuration(d, type) ==
    /\ Len(trace) < MaxTrace
    /\ duration' = d
    /\ workoutType' = type
    /\ \E tieUp \in TieDirections(heartRateData, maxHeartRate, d, type) :
          /\ effortLevel' = calculateWorkoutQuality(heartRateData, maxHeartRate, duration, type, tieUp)
          /\ trace' = Append(trace,
                 [heartRateData |-> heartRateData, maxHeartRate |-> maxHeartRate,
                  duration |-> d, workoutType |-> type, tieUp |-> tieUp,
                  after |-> heartRateData, result |-> effortLevel'])
    /\ pc' = "returned"
    /\ UNCHANGED <<maxHeartRate, heartRate, effort, heartRateData>>
    /\ UNCHANGED <<start, route, alert, screen, storage, calls, home>>

(* one call of calculateWorkoutQuality, recorded in trace: the function      *)
(* reads its four arguments only and assigns to locals only                  *)
RecordedCall(d, type) ==
    /\ Len(trace) < MaxTrace
    /\ duration' = d
    /\ workoutType' = type
    /\ \E tieUp \in TieDirections(heartRateData, maxHeartRate, d, type) :
          /\ effortLevel' = calculateWorkoutQuality(heartRateData, maxHeartRate, d, type, tieUp)
          /\ trace' = Append(trace,
                 [heartRateData |-> heartRateData, maxHeartRate |-> maxHeartRate,
                  duration |-> d, workoutType |-> type, tieUp |-> tieUp,
                  after |-> heartRateData, result |-> effortLevel'])
    /\ pc' = "returned"
    /\ UNCHANGED <<maxHeartRate, heartRate, effort, heartRateData>>
    /\ UNCHANGED <<start, route, alert, screen, storage, calls, home>>

NextPure == \E d \in SeriesDurations, type \in SeriesTypes : RecordedCall(d, type)

SpecPure == InitPure /\ [][NextPure]_vars

-----------------------------------------------------------------------------
(* StartWorkoutScreen: the two text fields and handleStartWorkout *)

(* the most characters typed into the two text fields together *)
MaxKeys == 3

(* maxLength={3} of both text fields *)
MaxLength == 3

(* the keys tried: some digits, a letter and the minus sign *)
TextChars == {"0", "1", "2", "9", "a", "-"}

DigitChars == {"0", "1", "2", "3", "4", "5", "6", "7", "8", "9"}

DigitValue(c) ==
    CASE c = "0" -> 0 [] c = "1" -> 1 [] c = "2" -> 2 [] c = "3" -> 3 [] c = "4" -> 4
      [] c = "5" -> 5 [] c = "6" -> 6 [] c = "7" -> 7 [] c = "8" -> 8 [] c = "9" -> 9

(* the value parseInt returns when the text does not start with a number *)
NaN == 2000000

(* the value of the longest prefix of digits of text, after the digits acc *)
RECURSIVE DigitsPrefix(_, _)
DigitsPrefix(text, acc) ==
    IF text = <<>> \/ Head(text) \notin DigitChars THEN acc
    ELSE DigitsPrefix(Tail(text), 10 * acc + DigitValue(Head(text)))

(* parseInt(text): an optional minus sign, then the digits up to the first   *)
(* character that is not one; NaN when there is no digit                     *)
ParseInt(text) ==
    LET negative == text # <<>> /\ Head(text) = "-"
        digits == IF negative THEN Tail(text) ELSE text
    IN  IF digits = <<>> \/ Head(digits) \notin DigitChars THEN NaN
        ELSE IF negative THEN 0 - DigitsPrefix(digits, 0)
        ELSE DigitsPrefix(digits, 0)

(* variant: no upper limit on the age *)
AgeRejected_noUpper(ageValue) == ageValue = NaN \/ ageValue < 10

(* isNaN(ageValue) || ageValue < 10 || ageValue > 120 *)
AgeRejected(ageValue) == ageValue = NaN \/ ageValue < 10 \/ ageValue > 120

(* isNaN(hr) || hr < 100 || hr > 220 *)
MaxHeartRateRejected(hr) == hr = NaN \/ hr < MinMaxHeartRate \/ hr > MaxMaxHeartRate

(* Math.round(220 - ageValue) of an integer ageValue *)
calculateMaxHeartRate(ageValue) == RoundDiv(220 - ageValue, 1)

(* the texts a previous handleStartWorkout can have saved *)
SavedAges == {<<>>, <<"2", "0">>}
SavedMaxHRs == {<<>>, <<"1", "2", "0">>}

(* WORKOUT_TYPES, the types the screen offers *)
WORKOUT_TYPES == {"Weightlifting", "Cardio", "HIIT", "Other"}

InitStart ==
    /\ maxHeartRate = Null
    /\ heartRate = Null
    /\ effort = NoResult
    /\ heartRateData = <<>>
    /\ duration = 0
    /\ workoutType = "Other"
    /\ effortLevel = NoResult
    /\ pc = "input"
    /\ \E savedAge \in SavedAges, savedMaxHR \in SavedMaxHRs :
          start = [StartState EXCEPT !.savedAge = savedAge, !.savedMaxHR = savedMaxHR]
    /\ route = [name |-> "Home", age |-> Null]
    /\ alert = ""
    /\ screen = ScreenState
    /\ storage = <<>>
    /\ calls = [c \in Callers |-> Idle]
    /\ home = HomeState
    /\ trace = <<>>

(* Home's 'Start New Workout': StartWorkoutScreen mounts and                 *)
(* loadSavedSettings fills the fields that have a saved text                 *)
OpenStartWorkout ==
    /\ route.name = "Home"
    /\ route' = [name |-> "StartWorkout", age |-> Null]
    /\ start' = [start EXCEPT !.age = start.savedAge,
                              !.maxHeartRate = start.savedMaxHR,
                              !.workoutType = "Other"]
    /\ UNCHANGED <<alert, screen, storage, calls, home, trace>>
    /\ UNCHANGED funcVars

TypedKeys == Len(start.age) - Len(start.savedAge)
             + Len(start.maxHeartRate) - Len(start.savedMaxHR)

(* onChangeText of the age field, one more character typed *)
TypeAge(c) ==
    /\ route.name = "StartWorkout"
    /\ TypedKeys < MaxKeys
    /\ Len(start.age) < MaxLength
    /\ start' = [start EXCEPT !.age = Append(start.age, c)]
    /\ UNCHANGED <<route, alert, screen, storage, calls, home, trace>>
    /\ UNCHANGED funcVars

(* onChangeText of the max heart rate field, one more character typed *)
TypeMaxHeartRate(c) ==
    /\ route.name = "StartWorkout"
    /\ TypedKeys < MaxKeys
    /\ Len(start.maxHeartRate) < MaxLength
    /\ start' = [start EXCEPT !.maxHeartRate = Append(start.maxHeartRate, c)]
    /\ UNCHANGED <<route, alert, screen, storage, calls, home, trace>>
    /\ UNCHANGED funcVars

(* onPress of a workout type button: setWorkoutType(type) *)
SelectWorkoutType(type) ==
    /\ route.name = "StartWorkout"
    /\ start' = [start EXCEPT !.workoutType = type]
    /\ UNCHANGED <<route, alert, screen, storage, calls, home, trace>>
    /\ UNCHANGED funcVars

(* the tail of handleStartWorkout: save the non-empty texts (a failing       *)
(* setItem is caught and leaves the saved text as it was), then navigate     *)
SaveAndNavigate(finalAge, finalMaxHR) ==
    /\ \E saved \in BOOLEAN :
          start' = IF saved
                   THEN [start EXCEPT
                           !.savedAge = IF start.age # <<>> THEN start.age ELSE @,
                           !.savedMaxHR = IF start.maxHeartRate # <<>>
                                          THEN start.maxHeartRate ELSE @]
                   ELSE start
    /\ route' = [name |-> "ActiveWorkout", age |-> finalAge]
    /\ maxHeartRate' = finalMaxHR
    /\ workoutType' = start.workoutType
    /\ UNCHANGED alert

Reject(title) ==
    /\ alert' = title
    /\ UNCHANGED <<start, route, maxHeartRate, workoutType>>

handleStartWorkout ==
    /\ route.name = "StartWorkout"
    /\ IF start.maxHeartRate # <<>>
       THEN LET hr == ParseInt(start.maxHeartRate)
            IN  IF MaxHeartRateRejected(hr) THEN Reject("Invalid Input")
                ELSE SaveAndNavigate(Null, hr)
       ELSE IF start.age # <<>>
       THEN LET ageValue == ParseInt(start.age)
            IN  IF AgeRejected(ageValue) THEN Reject("Invalid Input")
                ELSE SaveAndNavigate(ageValue, calculateMaxHeartRate(ageValue))
       ELSE Reject("Missing Information")
    /\ UNCHANGED <<screen, storage, calls, home, trace>>
    /\ UNCHANGED <<heartRate, effort, heartRateData, duration, effortLevel, pc>>

NextStart ==
    \/ OpenStartWorkout
    \/ \E c \in TextChars : TypeAge(c)
    \/ \E c \in TextChars : TypeMaxHeartRate(c)
    \/ \E type \in WORKOUT_TYPES : SelectWorkoutType(type)
    \/ handleStartWorkout

SpecStart == InitStart /\ [][NextStart]_vars

-----------------------------------------------------------------------------
(* services/WorkoutStorage.  A stored workout is the record of its fields    *)
(* that matter here: id (the timestamp in `workout_<timestamp>`), startTime, *)
(* duration, averageHeartRate and effortLevel (its score); a field whose     *)
(* value is undefined holds Undefined until JSON.stringify drops it.  An     *)
(* operation is one action per stretch between two awaits; calls[c] keeps    *)
(* the operation caller c has in flight.                                     *)

Undefined == Null

(* JSON.parse(JSON.stringify(workout)): a field that is undefined is left out *)
JsonRoundTrip(workout) ==
    [k \in {f \in DOMAIN workout : workout[f] # Undefined} |-> workout[k]]

(* the item written by setItem(WORKOUTS_KEY, JSON.stringify(workouts)), as   *)
(* JSON.parse gives it back                                                  *)
Stringify(workouts) == [i \in DOMAIN workouts |-> JsonRoundTrip(workouts[i])]

(* sorted with w put behind every element whose startTime is not smaller *)
InsertByStartTime(sorted, w) ==
    LET before == SelectSeq(sorted, LAMBDA e : e.startTime >= w.startTime)
        after == SelectSeq(sorted, LAMBDA e : e.startTime < w.startTime)
    IN  before \o <<w>> \o after

(* workouts.sort((a, b) => b.startTime - a.startTime): newest first, equal   *)
(* start times keeping their order (Array.prototype.sort is stable)          *)
RECURSIVE SortByStartTime(_)
SortByStartTime(workouts) ==
    IF workouts = <<>> THEN <<>>
    ELSE InsertByStartTime(SortByStartTime(SubSeq(workouts, 1, Len(workouts) - 1)),
                           workouts[Len(workouts)])

(* { ...workout, ...updates } *)
Merge(workout, updates) ==
    [k \in DOMAIN workout \cup DOMAIN updates |->
        IF k \in DOMAIN updates THEN updates[k] ELSE workout[k]]

(* workouts.findIndex(w => w.id === id), 0 standing for -1 *)
FindIndex(workouts, id) ==
    IF \E i \in DOMAIN workouts : workouts[i].id = id
    THEN CHOOSE i \in DOMAIN workouts :
            /\ workouts[i].id = id
            /\ \A j \in 1..(i - 1) : workouts[j].id # id
    ELSE 0

(* getAllWorkouts: the parsed item, [] when there is none or getItem throws *)
getAllWorkouts(ok) == IF ok THEN storage ELSE <<>>

(* the first stretch of saveWorkout, updateWorkout or deleteWorkout: up to   *)
(* the await of getItem inside getAllWorkouts                                *)
BeginCall(c, op, arg) ==
    /\ calls[c] = Idle
    /\ calls' = [calls EXCEPT ![c] = [op |-> op, pc |-> "getItem", arg |-> arg,
                                      workouts |-> <<>>]]

(* the second stretch, from the list getAllWorkouts returned to the await    *)
(* of setItem (updateWorkout of an id that is not stored returns instead)    *)
AfterGetItem(call, workouts) ==
    CASE call.op = "saveWorkout" ->
            [call EXCEPT !.pc = "setItem",
                         !.workouts = SortByStartTime(Append(workouts, call.arg))]
      [] call.op = "deleteWorkout" ->
            [call EXCEPT !.pc = "setItem",
                         !.workouts = SelectSeq(workouts, LAMBDA w : w.id # call.arg.id)]
      [] call.op = "updateWorkout" ->
            LET index == FindIndex(workouts, call.arg.id)
            IN  IF index # 0
                THEN [call EXCEPT !.pc = "setItem",
                         !.workouts = [workouts EXCEPT
                                          ![index] = Merge(workouts[index], call.arg.updates)]]
                ELSE [call EXCEPT !.pc = "resolved"]

(* AsyncStorage.getItem completes for caller c, with the item or by throwing *)
GetItem(c, ok) ==
    /\ calls[c].pc = "getItem"
    /\ calls' = [calls EXCEPT ![c] = AfterGetItem(calls[c], getAllWorkouts(ok))]
    /\ UNCHANGED storage
    /\ UNCHANGED <<start, route, alert, screen, home, trace>>
    /\ UNCHANGED funcVars

(* AsyncStorage.setItem completes for caller c: the item is replaced, or the *)
(* call throws and the operation rethrows                                    *)
SetItem(c, ok) ==
    /\ calls[c].pc = "setItem"
    /\ IF ok
       THEN /\ storage' = Stringify(calls[c].workouts)
            /\ calls' = [calls EXCEPT ![c].pc = "resolved"]
       ELSE /\ storage' = storage
            /\ calls' = [calls EXCEPT ![c].pc = "rejected"]
    /\ UNCHANGED <<start, route, alert, screen, home, trace>>
    /\ UNCHANGED funcVars

-----------------------------------------------------------------------------
(* WorkoutStorage driven through its three operations, starting from empty   *)
(* storage: by callers whose operations overlap (SpecStorage), and by one    *)
(* caller that awaits each operation before the next (SpecSequential)        *)

(* the workouts tried have the ids 1..MaxStored *)
MaxStored == 2

StorageIds == 1..MaxStored

(* the workout with id i as handleEndWorkout builds it without heart rate    *)
(* data: started at time i, averageHeartRate and effortLevel undefined       *)
NewWorkout(i) ==
    [id |-> i, startTime |-> i, duration |-> 60,
     averageHeartRate |-> Undefined, effortLevel |-> Undefined]

(* the Partial<Workout> value tried as updates: a start time later than any  *)
(* saved one                                                                 *)
Updates == {[startTime |-> MaxStored + 1]}

StoredIds == {storage[i].id : i \in DOMAIN storage}

(* no caller has an operation that finished and was not yet returned from *)
NoneCompleted ==
    \A c \in Callers : calls[c].pc \in {"none", "getItem", "setItem"}

InitStorage ==
    /\ maxHeartRate = Null
    /\ heartRate = Null
    /\ effort = NoResult
    /\ heartRateData = <<>>
    /\ duration = 0
    /\ workoutType = "Other"
    /\ effortLevel = NoResult
    /\ pc = "input"
    /\ AppInit

(* a caller calls saveWorkout with a workout just ended: its id and start     *)
(* time are the clock's value when it started, later than every earlier one  *)
CallSaveWorkout(c, i) ==
    /\ NoneCompleted
    /\ i > screen.workoutId
    /\ screen' = [screen EXCEPT !.workoutId = i, !.startTime = i]
    /\ BeginCall(c, "saveWorkout", NewWorkout(i))
    /\ UNCHANGED <<start, route, alert, storage, home, trace>>
    /\ UNCHANGED funcVars

CallUpdateWorkout(c, i, updates) ==
    /\ NoneCompleted
    /\ BeginCall(c, "updateWorkout", [id |-> i, updates |-> updates])
    /\ UNCHANGED <<start, route, alert, screen, storage, home, trace>>
    /\ UNCHANGED funcVars

CallDeleteWorkout(c, i) ==
    /\ NoneCompleted
    /\ BeginCall(c, "deleteWorkout", [id |-> i])
    /\ UNCHANGED <<start, route, alert, screen, storage, home, trace>>
    /\ UNCHANGED funcVars

(* the caller's await ends: the promise resolved, or it rejected *)
Return(c) ==
    /\ calls[c].pc \in {"resolved", "rejected"}
    /\ calls' = [calls EXCEPT ![c] = Idle]
    /\ UNCHANGED <<start, route, alert, screen, storage, home, trace>>
    /\ UNCHANGED funcVars

StorageSteps(c) ==
    \/ \E i \in StorageIds : CallSaveWorkout(c, i)
    \/ \E i \in StorageIds, updates \in Updates : CallUpdateWorkout(c, i, updates)
    \/ \E i \in StorageIds : CallDeleteWorkout(c, i)
    \/ \E ok \in BOOLEAN : GetItem(c, ok)
    \/ \E ok \in BOOLEAN : SetItem(c, ok)
    \/ Return(c)

NextStorage == \E c \in Callers : StorageSteps(c)

SpecStorage == InitStorage /\ [][NextStorage]_vars

NextSequential == StorageSteps(1)

SpecSequential == InitStorage /\ [][NextSequential]_vars

-----------------------------------------------------------------------------
(* ActiveWorkoutScreen with its HeartRateMonitor: one workout session from   *)
(* the mount of the screen to the navigation back to Home.  The route        *)
(* parameters are maxHeartRate and workoutType; duration is the screen's     *)
(* duration state, in seconds.                                               *)

(* the seconds the duration interval is followed for *)
MaxTicks == 2

(* HeartRateMonitor.isAvailable(): the sensor integration is commented out   *)
(* and the method returns false on every path                                *)
isAvailable == FALSE

(* new HeartRateMonitor(): manualMode false, no update callback registered *)
NewMonitor == [manualMode |-> FALSE, onHeartRateUpdate |-> FALSE]

(* the monitor after startMonitoring(onUpdate), which returns true *)
startMonitoring(monitor) ==
    IF ~isAvailable
    THEN [monitor EXCEPT !.manualMode = TRUE, !.onHeartRateUpdate = TRUE]
    ELSE monitor

(* the screen's stopMonitoring: the monitor is stopped and dropped *)
stopMonitoring(s) == [s EXCEPT !.monitorRef = NoMonitor, !.isMonitoring = FALSE]

(* Date.now() at the mount of the screen: later than every stored start time *)
SessionTimes == {MaxStored + 1, MaxStored + 2}

(* what storage holds when the session starts *)
StoredBefore == {<<>>, Stringify(<<NewWorkout(1)>>)}

InitWorkout ==
    /\ maxHeartRate \in {180, 200}
    /\ workoutType \in {"Cardio", "Other"}
    /\ heartRate = Null
    /\ effort = NoResult
    /\ heartRateData = <<>>
    /\ duration = 0
    /\ effortLevel = NoResult
    /\ pc = "input"
    /\ start = StartState
    /\ route = [name |-> "ActiveWorkout", age |-> Null]
    /\ alert = ""
    /\ screen = ScreenState
    /\ storage \in StoredBefore
    /\ calls = [c \in Callers |-> Idle]
    /\ home = HomeState
    /\ trace = <<>>

(* the two mount effects: startWorkout, whose awaits are of promises that    *)
(* are already settled, and the start of the duration interval               *)
startWorkout(now) ==
    /\ route.name = "ActiveWorkout"
    /\ screen.workoutId = 0
    /\ IF ~isAvailable
       THEN /\ screen' = [screen EXCEPT !.workoutId = now, !.startTime = now,
                                        !.monitorRef = NewMonitor,
                                        !.isMonitoring = FALSE,
                                        !.intervalRef = TRUE]
            /\ alert' = "Heart Rate Sensor Not Available"
       ELSE /\ screen' = [screen EXCEPT !.workoutId = now, !.startTime = now,
                                        !.monitorRef = startMonitoring(NewMonitor),
                                        !.isMonitoring = TRUE,
                                        !.isManualMode = startMonitoring(NewMonitor).manualMode,
                                        !.intervalRef = TRUE]
            /\ UNCHANGED alert
    /\ UNCHANGED <<start, route, storage, calls, home, trace>>
    /\ UNCHANGED funcVars

(* the interval's callback: one more second on the duration display *)
Tick ==
    /\ screen.intervalRef
    /\ duration < MaxTicks
    /\ duration' = duration + 1
    /\ UNCHANGED <<maxHeartRate, heartRate, effort, heartRateData, workoutType, effortLevel, pc>>
    /\ UNCHANGED appVars

(* the record handleEndWorkout builds: averageHeartRate and effortLevel (its *)
(* score) are undefined when no sample has a heart rate                      *)
EndedWorkout(finalDuration, tieUp) ==
    LET heartRates == ValidHRs(screen.heartRateHistory)
    IN  [id |-> screen.workoutId,
         startTime |-> screen.startTime,
         duration |-> finalDuration,
         averageHeartRate |-> IF Len(heartRates) > 0
                              THEN RoundDiv(SumSeq(heartRates), Len(heartRates))
                              ELSE Undefined,
         effortLevel |-> IF Len(heartRates) > 0
                         THEN calculateWorkoutQuality(heartRates, maxHeartRate,
                                                      finalDuration, workoutType, tieUp).score
                         ELSE Undefined]

(* 'End Workout' pressed: handleEndWorkout up to its await of saveWorkout,   *)
(* which is saveWorkout up to its await of getItem                           *)
handleEndWorkout(c) ==
    /\ route.name = "ActiveWorkout"
    /\ screen.workoutId # 0
    /\ screen' = [stopMonitoring(screen) EXCEPT !.intervalRef = FALSE]
    /\ \E finalDuration \in {duration, duration + 1}, tieUp \in BOOLEAN :
          BeginCall(c, "saveWorkout", EndedWorkout(finalDuration, tieUp))
    /\ UNCHANGED <<start, route, alert, storage, home, trace>>
    /\ UNCHANGED funcVars

(* saveWorkout resolved: the alert, then navigation.navigate('Home'), which  *)
(* unmounts the screen                                                       *)
WorkoutSaved(c) ==
    /\ calls[c].pc = "resolved"
    /\ calls' = [calls EXCEPT ![c] = Idle]
    /\ alert' = "Workout Saved!"
    /\ route' = [name |-> "Home", age |-> Null]
    /\ screen' = [stopMonitoring(screen) EXCEPT !.intervalRef = FALSE]
    /\ UNCHANGED <<start, storage, home, trace>>
    /\ UNCHANGED funcVars

(* saveWorkout rejected: the catch block *)
SaveFailed(c) ==
    /\ calls[c].pc = "rejected"
    /\ calls' = [calls EXCEPT ![c] = Idle]
    /\ alert' = "Error"
    /\ UNCHANGED <<start, route, screen, storage, home, trace>>
    /\ UNCHANGED funcVars

NextWorkout ==
    \/ \E now \in SessionTimes : startWorkout(now)
    \/ Tick
    \/ \E c \in Callers : handleEndWorkout(c)
    \/ \E c \in Callers, ok \in BOOLEAN : GetItem(c, ok)
    \/ \E c \in Callers, ok \in BOOLEAN : SetItem(c, ok)
    \/ \E c \in Callers : WorkoutSaved(c)
    \/ \E c \in Callers : SaveFailed(c)

SpecWorkout == InitWorkout /\ [][NextWorkout]_vars

-----------------------------------------------------------------------------
(* The manual entry dialog of ActiveWorkoutScreen over a monitor that        *)
(* startMonitoring has put in manual mode with the screen's update callback  *)
(* registered: the state startWorkout leaves behind when it gets past its    *)
(* isAvailable check                                                         *)

(* the valid readings followed in one session *)
MaxReadings == 1

(* the characters typed into the dialog's field *)
ManualChars == {"0", "1", "2", "4", "5", "a"}

InitManual ==
    /\ maxHeartRate = 200
    /\ workoutType = "Other"
    /\ heartRate = Null
    /\ effort = NoResult
    /\ heartRateData = <<>>
    /\ duration = 0
    /\ effortLevel = NoResult
    /\ pc = "input"
    /\ start = StartState
    /\ route = [name |-> "ActiveWorkout", age |-> Null]
    /\ alert = ""
    /\ screen = [ScreenState EXCEPT !.workoutId = MaxStored + 1,
                                    !.startTime = MaxStored + 1,
                                    !.monitorRef = startMonitoring(NewMonitor),
                                    !.isMonitoring = TRUE,
                                    !.isManualMode = TRUE,
                                    !.intervalRef = TRUE]
    /\ storage = <<>>
    /\ calls = [c \in Callers |-> Idle]
    /\ home = HomeState
    /\ trace = <<>>

(* '+ Add Heart Rate Reading', rendered in manual mode only *)
OpenManualEntry ==
    /\ screen.isManualMode
    /\ ~screen.showManualEntry
    /\ screen' = [screen EXCEPT !.showManualEntry = TRUE]
    /\ UNCHANGED <<start, route, alert, storage, calls, home, trace>>
    /\ UNCHANGED funcVars

(* onChangeText of the dialog's field, one more character typed *)
TypeManualHR(c) ==
    /\ screen.showManualEntry
    /\ Len(screen.manualHRInput) < MaxLength
    /\ screen' = [screen EXCEPT !.manualHRInput = Append(@, c)]
    /\ UNCHANGED <<start, route, alert, storage, calls, home, trace>>
    /\ UNCHANGED funcVars

(* 'Cancel' *)
CancelManualEntry ==
    /\ screen.showManualEntry
    /\ screen' = [screen EXCEPT !.showManualEntry = FALSE, !.manualHRInput = <<>>]
    /\ UNCHANGED <<start, route, alert, storage, calls, home, trace>>
    /\ UNCHANGED funcVars

(* the Save handler's test of the parsed reading *)
ManualReadingRejected(hr) == hr = NaN \/ ~(hr > 40 /\ hr < 250)

(* the samples addManualReading(hr) passes to the update callback, which     *)
(* appends them to heartRateHistory                                          *)
addManualReading(monitor, hr) ==
    IF monitor # NoMonitor /\ monitor.onHeartRateUpdate /\ monitor.manualMode
    THEN <<RoundDiv(hr, 1)>>
    ELSE <<>>

(* 'Save': the reading goes to the monitor, whose callback appends it, and   *)
(* is then appended by the handler itself                                    *)
SaveManualEntry ==
    /\ screen.showManualEntry
    /\ Len(screen.heartRateHistory) < MaxReadings
    /\ LET hr == ParseInt(screen.manualHRInput)
       IN  IF ~ManualReadingRejected(hr)
           THEN /\ screen' = [screen EXCEPT
                                !.heartRateHistory =
                                    (@ \o addManualReading(screen.monitorRef, hr)) \o <<hr>>,
                                !.showManualEntry = FALSE,
                                !.manualHRInput = <<>>]
                /\ heartRate' = hr
                /\ UNCHANGED alert
           ELSE /\ alert' = "Invalid Input"
                /\ UNCHANGED <<screen, heartRate>>
    /\ UNCHANGED <<maxHeartRate, effort, heartRateData, duration, workoutType, effortLevel, pc>>
    /\ UNCHANGED <<start, route, storage, calls, home, trace>>

NextManual ==
    \/ OpenManualEntry
    \/ \E c \in ManualChars : TypeManualHR(c)
    \/ CancelManualEntry
    \/ SaveManualEntry

SpecManual == InitManual /\ [][NextManual]_vars

-----------------------------------------------------------------------------
(* HomeScreen over a storage that workouts are saved to one after the other *)

(* the workouts saved have the ids 1..MaxWorkouts *)
MaxWorkouts == 6

(* the number of workouts HomeScreen keeps: workouts.slice(0, 5) *)
RecentCount == 5

Slice(workouts, n) == SubSeq(workouts, 1, IF Len(workouts) < n THEN Len(workouts) ELSE n)

(* loadRecentWorkouts, run when the screen gets the focus, at the end of its *)
(* await of getAllWorkouts                                                   *)
loadRecentWorkouts(ok) ==
    /\ route.name = "Home"
    /\ home' = [totalWorkouts |-> Len(getAllWorkouts(ok)),
                recentWorkouts |-> Slice(getAllWorkouts(ok), RecentCount)]
    /\ UNCHANGED <<start, route, alert, screen, storage, calls, trace>>
    /\ UNCHANGED funcVars

(* the condition under which HomeScreen renders 'See All' *)
SeeAllOffered == Len(home.recentWorkouts) > 5

NextHome ==
    \/ \E i \in 1..MaxWorkouts : CallSaveWorkout(1, i)
    \/ \E ok \in BOOLEAN : GetItem(1, ok)
    \/ \E ok \in BOOLEAN : SetItem(1, ok)
    \/ Return(1)
    \/ \E ok \in BOOLEAN : loadRecentWorkouts(ok)

SpecHome == InitStorage /\ [][NextHome]_vars

-----------------------------------------------------------------------------
(* Properties *)

QualityReturned == pc = "returned" /\ effortLevel # NoResult
EffortReturned == pc = "returned" /\ effort # NoResult

(* every non-null heartRate of the sample sequence lies in 0..maxHeartRate *)
SamplesInRange ==
    \A i \in DOMAIN heartRateData :
        heartRateData[i] # Null => heartRateData[i] \in 0..maxHeartRate

(* Scenario A: maxHeartRate 200 and the single sample 100 *)
ScenarioA == QualityReturned /\ maxHeartRate = 200 /\ heartRateData = <<100>>

(* C1: called with an empty sample sequence, calculateWorkoutQuality returns *)
(* exactly averageIntensity 0, maxIntensity 0, timeInZones {}, quality       *)
(* 'Poor', score 0 and no workoutSpecific field, whatever maxHeartRate,      *)
(* duration and workoutType are.                                             *)
C1_EmptyInputResult ==
    (QualityReturned /\ heartRateData = <<>>) =>
        effortLevel = [averageIntensity |-> 0, maxIntensity |-> 0, timeInZones |-> << >>,
                       quality |-> "Poor", score |-> 0]

C1_Witness ==
    /\ QualityReturned /\ heartRateData = <<>>
    /\ maxHeartRate = 200 /\ duration = 7200 /\ workoutType = "Weightlifting"

(* C2: for a non-empty sample sequence whose non-null heart rates all lie in *)
(* 0..maxHeartRate the score is in 0..100, for every workoutType.            *)
C2_ScoreInRange ==
    (QualityReturned /\ heartRateData # <<>> /\ SamplesInRange) =>
        effortLevel.score \in 0..100

C2_Witness ==
    /\ QualityReturned /\ heartRateData # <<>> /\ SamplesInRange
    /\ effortLevel.timeInZones["anaerobic"] + effortLevel.timeInZones["max"] = 101
    /\ effortLevel.score = 100

(* C3: in every result, of empty and of non-empty input, quality is the      *)
(* band of score: Excellent iff score >= 80, Good iff 60 <= score < 80,      *)
(* Fair iff 40 <= score < 60, Poor iff score < 40.                           *)
C3_QualityBandsScore ==
    QualityReturned =>
        /\ effortLevel.quality = "Excellent" <=> effortLevel.score >= 80
        /\ effortLevel.quality = "Good" <=> (60 <= effortLevel.score /\ effortLevel.score < 80)
        /\ effortLevel.quality = "Fair" <=> (40 <= effortLevel.score /\ effortLevel.score < 60)
        /\ effortLevel.quality = "Poor" <=> effortLevel.score < 40

C3_Witness ==
    QualityReturned /\ effortLevel.score = 80 /\ effortLevel.quality = "Excellent"

(* C4: for the same samples, maxHeartRate and duration the result is the     *)
(* same for Cardio, Running and Cycling, the same for HIIT and CrossFit, and *)
(* the same for Yoga, Other and an unrecognized workoutType: the result     *)
(* returned for one type is the result for every other type of its group,   *)
(* the double sum of the score rounding the same way.                        *)
SameFormulaTypes ==
    {{"Cardio", "Running", "Cycling"}, {"HIIT", "CrossFit"}, {"Yoga", "Other", UnknownType}}

C4_SameResultWithinGroup ==
    QualityReturned =>
        \A group \in SameFormulaTypes :
            workoutType \in group =>
                \A type \in group \ {workoutType}, tieUp \in BOOLEAN :
                    effortLevel = calculateWorkoutQuality(heartRateData, maxHeartRate,
                                                          duration, workoutType, tieUp)
                    => effortLevel = calculateWorkoutQuality(heartRateData, maxHeartRate,
                                                             duration, type, tieUp)

C4_Witness ==
    /\ QualityReturned /\ workoutType = "Cycling" /\ heartRateData # <<>>
    /\ effortLevel.workoutSpecific.sustainedAerobic > 0
    /\ \A tieUp \in BOOLEAN :
         effortLevel.score #
           calculateWorkoutQuality(heartRateData, maxHeartRate, duration, "Other", tieUp).score

(* C5: for maxHeartRate M > 0 and heartRate in 0..M the intensity of         *)
(* getEffortLevel is in 0..100 and does not decrease when heartRate grows,   *)
(* across band boundaries too.                                               *)
C5_IntensityMonotone ==
    (EffortReturned /\ heartRate <= maxHeartRate) =>
        /\ effort.intensity \in 0..100
        /\ \A hr \in heartRate..maxHeartRate :
             effort.intensity <= getEffortLevel(hr, maxHeartRate).intensity

C5_Witness ==
    /\ EffortReturned /\ maxHeartRate = 200 /\ heartRate = 100
    /\ effort.intensity = 20
    /\ getEffortLevel(101, 200).intensity = 21

(* C6: getEffortLevel returns an intensity in 0..100 for every heart rate,   *)
(* in particular for every manual reading the app accepts (41..249) against  *)
(* every maxHeartRate the app accepts (100..220).                            *)
C6_IntensityInRangeForAcceptedReadings ==
    (/\ EffortReturned
     /\ maxHeartRate \in MinMaxHeartRate..MaxMaxHeartRate
     /\ heartRate \in MinManualReading..MaxManualReading) =>
        effort.intensity \in 0..100

(* C7: for maxHeartRate M > 0 the five bands are contiguous and              *)
(* non-decreasing: each band's max is the next band's min, max.max is M and  *)
(* every band has min <= max.                                                *)
C7_ZonesContiguous ==
    LET zones == calculateHeartRateZones(maxHeartRate) IN
    /\ zones.recovery.max = zones.fatBurn.min
    /\ zones.fatBurn.max = zones.aerobic.min
    /\ zones.aerobic.max = zones.anaerobic.min
    /\ zones.anaerobic.max = zones.max.min
    /\ zones.max.max = maxHeartRate
    /\ \A z \in ZoneNames : zones[z].min <= zones[z].max

C7_Witness ==
    /\ EffortReturned /\ maxHeartRate = 3
    /\ calculateHeartRateZones(maxHeartRate).max.min = calculateHeartRateZones(maxHeartRate).max.max

(* the timeInZones key of a zone name of getEffortLevel *)
ZoneKey(zone) ==
    CASE zone = "Recovery" -> "recovery"
      [] zone = "Fat Burn" -> "fatBurn"
      [] zone = "Aerobic" -> "aerobic"
      [] zone = "Anaerobic" -> "anaerobic"
      [] zone = "Max" -> "max"

(* C8 as stated: a heart rate equal to a band boundary is in the lower of    *)
(* the two bands (round(0.50 M) Recovery, round(0.60 M) Fat Burn,            *)
(* round(0.70 M) Aerobic, round(0.85 M) Anaerobic), every heart rate above   *)
(* round(0.85 M) is Max, and the zone counting agrees with getEffortLevel.   *)
C8_BoundaryInLowerBand_Original ==
    EffortReturned =>
        /\ heartRate = RoundPct(maxHeartRate, 50) => effort.zone = "Recovery"
        /\ heartRate = RoundPct(maxHeartRate, 60) => effort.zone = "Fat Burn"
        /\ heartRate = RoundPct(maxHeartRate, 70) => effort.zone = "Aerobic"
        /\ heartRate = RoundPct(maxHeartRate, 85) => effort.zone = "Anaerobic"
        /\ heartRate > RoundPct(maxHeartRate, 85) => effort.zone = "Max"
        /\ CountZone(heartRate, calculateHeartRateZones(maxHeartRate)) = ZoneKey(effort.zone)

(* C8 amended: a heart rate equal to a band boundary is in the lower of the  *)
(* two bands whenever that band is not empty, that is whenever the boundary  *)
(* is above the previous one (rounding makes boundaries coincide for small   *)
(* maxHeartRate, and the value then belongs to the lowest band ending        *)
(* there); every heart rate above round(0.85 M) is Max; the zone counting    *)
(* agrees with getEffortLevel.                                               *)
C8_BoundaryInLowestBand ==
    EffortReturned =>
        LET b50 == RoundPct(maxHeartRate, 50)
            b60 == RoundPct(maxHeartRate, 60)
            b70 == RoundPct(maxHeartRate, 70)
            b85 == RoundPct(maxHeartRate, 85)
        IN  /\ heartRate = b50 => effort.zone = "Recovery"
            /\ (heartRate = b60 /\ b50 < b60) => effort.zone = "Fat Burn"
            /\ (heartRate = b70 /\ b60 < b70) => effort.zone = "Aerobic"
            /\ (heartRate = b85 /\ b70 < b85) => effort.zone = "Anaerobic"
            /\ heartRate > b85 => effort.zone = "Max"
            /\ CountZone(heartRate, calculateHeartRateZones(maxHeartRate)) = ZoneKey(effort.zone)

C8_Witness ==
    /\ EffortReturned /\ maxHeartRate = 200 /\ heartRate = 120
    /\ effort.zone = "Fat Burn"

(* C9 as stated: in Scenario A the sample falls in the fatBurn band with     *)
(* intensity 20, averageIntensity = maxIntensity = 20 and timeInZones is     *)
(* fatBurn 100, every other zone 0.                                          *)
C9_ScenarioAFatBurn_Original ==
    ScenarioA =>
        /\ getEffortLevel(heartRateData[1], maxHeartRate).zone = "Fat Burn"
        /\ getEffortLevel(heartRateData[1], maxHeartRate).intensity = 20
        /\ effortLevel.averageIntensity = 20
        /\ effortLevel.maxIntensity = 20
        /\ effortLevel.timeInZones =
             [z \in ZoneNames |-> IF z = "fatBurn" THEN 100 ELSE 0]

(* C9 amended: in Scenario A the sample, equal to the boundary               *)
(* round(0.50 * 200) = 100, falls in the recovery band with intensity 20,    *)
(* averageIntensity = maxIntensity = 20 and timeInZones is recovery 100,     *)
(* every other zone 0.                                                       *)
C9_ScenarioARecovery ==
    ScenarioA =>
        /\ getEffortLevel(heartRateData[1], maxHeartRate).zone = "Recovery"
        /\ getEffortLevel(heartRateData[1], maxHeartRate).intensity = 20
        /\ effortLevel.averageIntensity = 20
        /\ effortLevel.maxIntensity = 20
        /\ effortLevel.timeInZones =
             [z \in ZoneNames |-> IF z = "recovery" THEN 100 ELSE 0]

C9_Witness == ScenarioA /\ effortLevel.timeInZones["recovery"] = 100

(* C10 as stated: in Scenario A with duration 60 and workoutType 'Other'     *)
(* the score is 19 and the quality 'Poor'.                                   *)
C10_ScenarioAScore19_Original ==
    (ScenarioA /\ duration = 60 /\ workoutType = "Other") =>
        effortLevel.score = 19 /\ effortLevel.quality = "Poor"

(* C10 amended: in Scenario A with duration 60 and workoutType 'Other' the   *)
(* score is 13 = round(0.35*20 + 0.30*20 + 0.20*0 + 0.15*1.67) and the       *)
(* quality 'Poor'.                                                           *)
C10_ScenarioAScore13 ==
    (ScenarioA /\ duration = 60 /\ workoutType = "Other") =>
        effortLevel.score = 13 /\ effortLevel.quality = "Poor"

C10_Witness ==
    ScenarioA /\ duration = 60 /\ workoutType = "Other" /\ effortLevel.score = 13

(* Scenario B: maxHeartRate 200, 'HIIT', ten samples alternating between 60  *)
(* and 190, five of each                                                     *)
ScenarioB ==
    /\ QualityReturned
    /\ maxHeartRate = 200
    /\ workoutType = "HIIT"
    /\ Len(heartRateData) = 10
    /\ \A i \in 1..10 : heartRateData[i] \in {60, 190}
    /\ \A i \in 1..9 : heartRateData[i] # heartRateData[i + 1]

(* C11 as stated: in Scenario B, for any duration, zoneTransitions is 9 and  *)
(* the score is at least 80 with quality 'Excellent'.                        *)
C11_ScenarioBExcellent_Original ==
    ScenarioB =>
        /\ effortLevel.workoutSpecific.zoneTransitions = 9
        /\ effortLevel.score >= 80
        /\ effortLevel.quality = "Excellent"

(* C11 amended: in Scenario B, for any duration, zoneTransitions is 9 and    *)
(* the score is 74 with quality 'Good' (0.30 * 50 + 0.25 * 100 + 0.25 * 93   *)
(* + 0.20 * 52.5 = 73.75).                                                   *)
C11_ScenarioBGood ==
    ScenarioB =>
        /\ effortLevel.workoutSpecific.zoneTransitions = 9
        /\ effortLevel.maxIntensity = 93
        /\ effortLevel.timeInZones["recovery"] = 50
        /\ effortLevel.timeInZones["max"] = 50
        /\ effortLevel.score = 74
        /\ effortLevel.quality = "Good"

C11_Witness ==
    /\ ScenarioB
    /\ duration = 3600
    /\ heartRateData[1] = 60
    /\ effortLevel.workoutSpecific.zoneTransitions = 9
    /\ effortLevel.score = 74

(* Scenario C: maxHeartRate 200, nine samples of 150 and one null sample *)
ScenarioC ==
    /\ QualityReturned
    /\ maxHeartRate = 200
    /\ Len(heartRateData) = 10
    /\ Cardinality({i \in 1..10 : heartRateData[i] = Null}) = 1
    /\ \A i \in 1..10 : heartRateData[i] \in {150, Null}

(* the number of non-null samples whose heart rate getEffortLevel puts in    *)
(* the zone with key z                                                       *)
SamplesInZone(z) ==
    Cardinality({i \in DOMAIN heartRateData :
        /\ heartRateData[i] # Null
        /\ ZoneKey(getEffortLevel(heartRateData[i], maxHeartRate).zone) = z})

(* the intensity a sample contributes: 0 for a null sample *)
SampleIntensity(i) ==
    IF heartRateData[i] = Null THEN 0
    ELSE getEffortLevel(heartRateData[i], maxHeartRate).intensity

ZonePercentSum ==
    effortLevel.timeInZones["recovery"] + effortLevel.timeInZones["fatBurn"]
    + effortLevel.timeInZones["aerobic"] + effortLevel.timeInZones["anaerobic"]
    + effortLevel.timeInZones["max"]

(* C13 as stated: for a non-empty sample sequence without null heart rates   *)
(* the five timeInZones percentages sum to 99, 100 or 101.                   *)
C13_PercentagesSumWithinOne_Original ==
    (/\ QualityReturned
     /\ heartRateData # <<>>
     /\ \A i \in DOMAIN heartRateData : heartRateData[i] # Null)
        => ZonePercentSum \in 99..101

(* C13 amended: for a non-empty sample sequence whose heart rates are all    *)
(* non-null and non-zero the five percentages sum to a value in 98..102;     *)
(* each is rounded on its own, and eight samples split 1, 1, 1, 1, 4 over    *)
(* the zones give 13 + 13 + 13 + 13 + 50 = 102.                              *)
C13_PercentagesSumWithinTwo ==
    (/\ QualityReturned
     /\ heartRateData # <<>>
     /\ \A i \in DOMAIN heartRateData : ~Falsy(heartRateData[i]))
        => ZonePercentSum \in 98..102

C13_Witness ==
    /\ QualityReturned
    /\ heartRateData = <<100, 120, 140, 170, 200, 200, 200, 200>>
    /\ ZonePercentSum = 102

(* C14 as stated: in every returned result, the one for an empty input       *)
(* included, the keys of timeInZones are exactly recovery, fatBurn, aerobic, *)
(* anaerobic and max.                                                        *)
C14_FiveZoneKeysAlways_Original ==
    QualityReturned =>
        DOMAIN effortLevel.timeInZones =
            {"recovery", "fatBurn", "aerobic", "anaerobic", "max"}

(* C14 amended: the keys of timeInZones are exactly the five zone names in   *)
(* every result for a non-empty input, and timeInZones has no key at all in  *)
(* the result for an empty input.                                            *)
C14_FiveZoneKeysWhenNonEmpty ==
    QualityReturned =>
        DOMAIN effortLevel.timeInZones =
            IF heartRateData = <<>> THEN {}
            ELSE {"recovery", "fatBurn", "aerobic", "anaerobic", "max"}

C14_Witness ==
    /\ QualityReturned
    /\ heartRateData = <<Null, 0>>
    /\ DOMAIN effortLevel.timeInZones = ZoneNames
    /\ \A z \in ZoneNames : effortLevel.timeInZones[z] = 0

(* the non-null heart rates of the sample sequence, in order *)
NonNullValues == SelectSeq(heartRateData, LAMBDA hr : hr # Null)

(* sum over all ordered pairs (i, j) of (V[i] - V[j])^2; it equals           *)
(* 2 n^2 times the population variance of the n values of V                  *)
PairwiseSquares(V) ==
    SumSeq([i \in DOMAIN V |-> SumSeq([j \in DOMAIN V |-> (V[i] - V[j]) * (V[i] - V[j])])])

(* k is the population standard deviation of V rounded to the nearest        *)
(* integer: k - 1/2 <= sqrt(P / (2 n^2)) < k + 1/2 with P the pairwise sum   *)
IsRoundedStdDev(k, V) ==
    LET n == Len(V)
        P == PairwiseSquares(V)
    IN  /\ k >= 0
        /\ 2 * P < (2 * k + 1) * (2 * k + 1) * n * n
        /\ (k = 0 \/ (2 * k - 1) * (2 * k - 1) * n * n <= 2 * P)

(* C15: hrVariability is the population standard deviation of the non-null  *)
(* heart rates V rounded to the nearest integer, present exactly when V has  *)
(* more than one value; null samples never influence it, and nine identical  *)
(* readings with one null give 0.                                            *)
C15_HrVariabilityIsStdDev ==
    (QualityReturned /\ heartRateData # <<>>) =>
        LET ws == effortLevel.workoutSpecific IN
        /\ ("hrVariability" \in DOMAIN ws) <=> (Len(NonNullValues) > 1)
        /\ ("hrVariability" \in DOMAIN ws) => IsRoundedStdDev(ws.hrVariability, NonNullValues)
        /\ ScenarioC => ws.hrVariability = 0

C15_Witness ==
    /\ QualityReturned
    /\ heartRateData = <<Null, 120, Null, 150, 140>>
    /\ effortLevel.workoutSpecific.hrVariability = 12

(* variabilityScore as the claim gives it for a defined hrVariability hv,    *)
(* min(hv / 30 * 100, 100), in units of 1 / (36 n)                           *)
ClaimedVariabilityTerm(hv, n) == Min(hv * 10, 300) * 12 * n

(* C16: for 'Weightlifting' the variabilityScore is                          *)
(* min(hrVariability / 30 * 100, 100) whenever hrVariability is defined and  *)
(* 50 only when it is undefined, so a sequence of two or more identical      *)
(* valid readings (hrVariability 0) gets variabilityScore 0, not 50.  The    *)
(* score is then round(0.30 maxIntensity + 0.25 spikesScore                  *)
(* + 0.25 variabilityScore + 0.10 durationScore + 0.10 averageIntensity).    *)
C16_VariabilityScoreWhenDefined ==
    (/\ QualityReturned
     /\ workoutType = "Weightlifting"
     /\ heartRateData # <<>>
     /\ "hrVariability" \in DOMAIN effortLevel.workoutSpecific)
        =>
        LET n == Len(heartRateData)
            ws == effortLevel.workoutSpecific
            weighted ==   WholeTerm(effortLevel.maxIntensity, n) * 30
                        + RateTerm(ws.peakSpikes, 10, n) * 25
                        + ClaimedVariabilityTerm(ws.hrVariability, n) * 25
                        + DurationTerm(duration, n) * 10
                        + AverageTerm(SumSeq([i \in 1..n |-> SampleIntensity(i)]), n) * 10
        IN  \E tieUp \in BOOLEAN : effortLevel.score = RoundSum(weighted, 100 * Unit(n), tieUp)

(* sample i has a heart rate in round(0.60 M)..round(0.70 M), edges included *)
InAerobicRange(i) ==
    LET zones == calculateHeartRateZones(maxHeartRate)
    IN  /\ heartRateData[i] # Null
        /\ heartRateData[i] >= zones.aerobic.min
        /\ heartRateData[i] <= zones.aerobic.max

(* the length of the longest run of consecutive samples in the aerobic range *)
LongestAerobicRun ==
    LET n == Len(heartRateData)
        runs == {0} \cup {j - i + 1 : i \in 1..n, j \in 1..n}
        IsRun(len) == len = 0 \/ \E i \in 1..(n - len + 1) :
                           \A k \in i..(i + len - 1) : InAerobicRange(k)
    IN  CHOOSE len \in runs :
           IsRun(len) /\ \A other \in runs : IsRun(other) => other <= len

(* C17: sustainedAerobic is round(100 * L / n), n the total sample count and *)
(* L the longest run of consecutive samples whose heart rate lies in         *)
(* round(0.60 M)..round(0.70 M) inclusive; a null or out-of-range sample     *)
(* ends the current run without lowering the longest run seen.               *)
C17_SustainedAerobicLongestRun ==
    (QualityReturned /\ heartRateData # <<>>) =>
        effortLevel.workoutSpecific.sustainedAerobic =
            RoundDiv(100 * LongestAerobicRun, Len(heartRateData))

C17_Witness ==
    /\ QualityReturned
    /\ heartRateData = <<120, 140, Null, 140, 150>>
    /\ LongestAerobicRun = 2
    /\ effortLevel.workoutSpecific.sustainedAerobic = 40

(* the zone key of the i-th non-null heart rate *)
ValidZone(i) == ZoneKey(getEffortLevel(NonNullValues[i], maxHeartRate).zone)

InvalidArgument == [failure |-> "InvalidArgument"]

(* C19: calculateWorkoutQuality (like calculateHeartRateZones and            *)
(* getEffortLevel for maxHeartRate) signals an explicit InvalidArgument      *)
(* failure instead of returning a value when maxHeartRate <= 0 or the        *)
(* duration is negative.                                                     *)
C19_InvalidArgumentSignalled ==
    (pc = "returned" /\ (maxHeartRate <= 0 \/ duration < 0)) =>
        effortLevel = InvalidArgument

(* the intensity at the lower endpoint of the band getEffortLevel names *)
LowerEndpointIntensity(zone) ==
    CASE zone = "Recovery" -> 0
      [] zone = "Fat Burn" -> 20
      [] zone = "Aerobic" -> 40
      [] zone = "Anaerobic" -> 60
      [] zone = "Max" -> 80

(* C20: whenever getEffortLevel matches a band of zero width (the Max band   *)
(* when round(0.85 M) = M and the heart rate is above M), no division by     *)
(* zero happens and the intensity is the one at the band's lower endpoint,   *)
(* 80 for Max.                                                               *)
C20_ZeroWidthBandGuarded ==
    EffortReturned =>
        LET band == calculateHeartRateZones(maxHeartRate)[ZoneKey(effort.zone)]
        IN  band.min = band.max =>
               /\ effort.intensity # Infinity
               /\ effort.intensity = LowerEndpointIntensity(effort.zone)

(* C29: for every non-empty sample sequence sustainedAerobic never exceeds   *)
(* timeInZones.aerobic: the longest unbroken aerobic run is made only of     *)
(* samples that the zone counting also places in the aerobic band.           *)
C29_SustainedWithinAerobicTime ==
    (QualityReturned /\ heartRateData # <<>>) =>
        effortLevel.workoutSpecific.sustainedAerobic <= effortLevel.timeInZones["aerobic"]

C23_NavigationCarriesValidMaxHeartRate ==
    route.name = "ActiveWorkout" =>
        /\ maxHeartRate \in 100..220
        /\ \/ /\ start.maxHeartRate # <<>>
              /\ ParseInt(start.maxHeartRate) \in 100..220
              /\ maxHeartRate = ParseInt(start.maxHeartRate)
           \/ /\ start.maxHeartRate = <<>>
              /\ start.age # <<>>
              /\ ParseInt(start.age) \in 10..120
              /\ maxHeartRate = 220 - ParseInt(start.age)

C23_Witness ==
    /\ route.name = "ActiveWorkout"
    /\ start.maxHeartRate = <<>>
    /\ start.age = <<"1", "2", "0">>
    /\ route.age = 120
    /\ maxHeartRate = 100

(* C26: when a saveWorkout and another caller's operation on another id      *)
(* overlap and both complete without throwing, the saved workout is in       *)
(* storage afterwards, and so is the other caller's when it was a save too   *)
C26_NoLostUpdate ==
    \A c1 \in Callers, c2 \in Callers :
        ( /\ c1 # c2
          /\ calls[c1].pc = "resolved"
          /\ calls[c2].pc = "resolved"
          /\ calls[c1].op = "saveWorkout"
          /\ calls[c2].arg.id # calls[c1].arg.id )
        => calls[c1].arg.id \in StoredIds

(* C27: a saveWorkout that completes without throwing leaves every workout   *)
(* stored before it in storage, and a deleteWorkout that completes without   *)
(* throwing removes only workouts with its id, also when the read inside     *)
(* the operation failed                                                      *)
C27_ReadFailureKeepsWorkouts ==
    [][ (calls[1].pc = "setItem" /\ calls'[1].pc = "resolved")
        => \A i \in DOMAIN storage :
              \/ calls[1].op = "updateWorkout"
              \/ calls[1].op = "deleteWorkout" /\ storage[i].id = calls[1].arg.id
              \/ \E j \in DOMAIN storage' : storage'[j] = storage[i] ]_vars

(* C28: after any sequence of completed saveWorkout, updateWorkout and       *)
(* deleteWorkout operations from empty storage the stored list is ordered    *)
(* by startTime, newest first                                                *)
C28_StoredNewestFirst ==
    \A i \in DOMAIN storage, j \in DOMAIN storage :
        i < j => storage[i].startTime >= storage[j].startTime

(* C30: once HomeScreen has loaded more than five stored workouts it offers  *)
(* the 'See All' control                                                     *)
C30_SeeAllOfferedAboveFive == home.totalWorkouts > 5 => SeeAllOffered

(* C22: with the sensor unavailable, once startWorkout has run the screen is *)
(* in manual mode, so that the '+ Add Heart Rate Reading' control is offered *)
C22_ManualModeAfterStart ==
    (route.name = "ActiveWorkout" /\ screen.workoutId # 0) => screen.isManualMode

(* C25: storage never holds more than one workout with the id of the         *)
(* session, whatever presses of 'End Workout' occur                          *)
C25_OneRecordPerSession ==
    Cardinality({i \in DOMAIN storage : storage[i].id = screen.workoutId}) <= 1

=============================================================================
